---- MODULE Spec2Model ----
(***************************************************************************)
(* Model of context_generator.py: a command that decodes a JSON/YAML data  *)
(* document, loads a Jinja2 template under a strict or lenient undefined   *)
(* policy, renders the template with the data and routes the rendered text *)
(* to a file or to standard output.                                        *)
(*                                                                         *)
(* Texts are sequences of one-character strings, so that concatenation,    *)
(* prefixes and the newline appended by print() are exact.  Decoded values *)
(* are tagged records.  The JSON parser, the YAML parser and the template  *)
(* parser are libraries; they are modelled by their results on a fixed set *)
(* of representative documents and template files.                        *)
(***************************************************************************)
EXTENDS Integers, Sequences, FiniteSets, TLC

(* ---------------------------------------------------------------------- *)
(* Bounds                                                                  *)
(* ---------------------------------------------------------------------- *)

\* longest chain of index/attribute accesses explored on an Undefined Marker
MaxChain == 4

(* ---------------------------------------------------------------------- *)
(* Values                                                                  *)
(* ---------------------------------------------------------------------- *)

\* Python's None (an absent optional argument, an unset local)
None == [t |-> "None"]

VStr(s) == [t |-> "str", v |-> s]
VNum(s) == [t |-> "num", v |-> s]
VList(xs) == [t |-> "list", v |-> xs]
VMap(items) == [t |-> "map", v |-> items]
Item(k, v) == [k |-> k, v |-> v]

\* the two undefined classes handed to the Environment
OptionalUndefinedCls == "OptionalUndefined"
StrictUndefinedCls == "StrictUndefined"

\* an instance of an undefined class created by a failed lookup of `name`
Undefined(cls, name) == [t |-> "undefined", cls |-> cls, name |-> name]

\* an exception propagating out of an evaluation
Raise(exc) == [t |-> "raise", exc |-> exc]

IsRaise(x) == x.t = "raise"
IsUndefined(x) == x.t = "undefined"
IsOptionalUndefined(x) == x.t = "undefined" /\ x.cls = OptionalUndefinedCls

(* ---------------------------------------------------------------------- *)
(* Text helpers                                                            *)
(* ---------------------------------------------------------------------- *)

Digit(d) ==
    CASE d = 0 -> "0" [] d = 1 -> "1" [] d = 2 -> "2" [] d = 3 -> "3"
      [] d = 4 -> "4" [] d = 5 -> "5" [] d = 6 -> "6" [] d = 7 -> "7"
      [] d = 8 -> "8" [] d = 9 -> "9"

RECURSIVE IntToText(_)
IntToText(n) ==
    IF n < 10 THEN <<Digit(n)>>
    ELSE IntToText(n \div 10) \o <<Digit(n % 10)>>

RECURSIVE Repeat(_, _)
Repeat(s, n) == IF n = 0 THEN <<>> ELSE s \o Repeat(s, n - 1)

Prefixes(s) == { SubSeq(s, 1, n) : n \in 0..Len(s) }

(* ---------------------------------------------------------------------- *)
(* Representative documents and what the two decoders make of them         *)
(* ---------------------------------------------------------------------- *)

\* a local that has not been assigned yet
NotSet == [t |-> "unset"]

kName == <<"n", "a", "m", "e">>
kUser == <<"u", "s", "e", "r">>
kEmail == <<"e", "m", "a", "i", "l">>
kN == <<"n">>
kA == <<"a">>
kB == <<"b">>
kC == <<"c">>
kMissing == <<"m", "i", "s", "s">>
tAda == <<"A", "d", "a">>

Docs ==
    { "{\"name\": \"Ada\"}", "{}", "name: Ada", "{\"n\": 1e3}", "[1, 2]", "",
      "{\"a\": [", "1: a", "{\"user\": {\"name\": \"Ada\"}}", "42", "hello" }

Decoded(v) == [ok |-> TRUE, value |-> v]
DecodeError == [ok |-> FALSE, value |-> NotSet]

\* json.loads(content): the decoded value, or JSONDecodeError
json_loads(content) ==
    CASE content = "{\"name\": \"Ada\"}" ->
            Decoded(VMap(<<Item(VStr(kName), VStr(tAda))>>))
      [] content = "{}" -> Decoded(VMap(<<>>))
      [] content = "{\"n\": 1e3}" ->
            Decoded(VMap(<<Item(VStr(kN), VNum(<<"1", "0", "0", "0", ".", "0">>))>>))
      [] content = "[1, 2]" -> Decoded(VList(<<VNum(<<"1">>), VNum(<<"2">>)>>))
      [] content = "{\"user\": {\"name\": \"Ada\"}}" ->
            Decoded(VMap(<<Item(VStr(kUser), VMap(<<Item(VStr(kName), VStr(tAda))>>))>>))
      [] content = "42" -> Decoded(VNum(<<"4", "2">>))
      [] OTHER -> DecodeError

\* yaml.safe_load(content): the decoded value, or YAMLError.  YAML 1.1 reads
\* the scalar 1e3 as a string, an empty document as null.
yaml_safe_load(content) ==
    CASE content = "{\"name\": \"Ada\"}" ->
            Decoded(VMap(<<Item(VStr(kName), VStr(tAda))>>))
      [] content = "{}" -> Decoded(VMap(<<>>))
      [] content = "name: Ada" ->
            Decoded(VMap(<<Item(VStr(kName), VStr(tAda))>>))
      [] content = "{\"n\": 1e3}" ->
            Decoded(VMap(<<Item(VStr(kN), VStr(<<"1", "e", "3">>))>>))
      [] content = "[1, 2]" -> Decoded(VList(<<VNum(<<"1">>), VNum(<<"2">>)>>))
      [] content = "" -> Decoded(None)
      [] content = "1: a" -> Decoded(VMap(<<Item(VNum(<<"1">>), VStr(kA))>>))
      [] content = "{\"user\": {\"name\": \"Ada\"}}" ->
            Decoded(VMap(<<Item(VStr(kUser), VMap(<<Item(VStr(kName), VStr(tAda))>>))>>))
      [] content = "42" -> Decoded(VNum(<<"4", "2">>))
      [] content = "hello" -> Decoded(VStr(<<"h", "e", "l", "l", "o">>))
      [] OTHER -> DecodeError

\* a message on the diagnostic stream, by the statement that printed it
Msg(kind) == [kind |-> kind]

\* a write to standard output, by the statement that made it
Written(kind, text) == [kind |-> kind, text |-> text]

\* load_data with the decoders tried in the other order
load_data_yaml_first(content) ==
    LET j == json_loads(content)
        y == yaml_safe_load(content)
    IN  IF y.ok
        THEN [returned |-> TRUE, value |-> y.value, calls |-> <<"yaml">>,
              err |-> <<>>]
        ELSE IF j.ok
             THEN [returned |-> TRUE, value |-> j.value,
                   calls |-> <<"yaml", "json">>, err |-> <<>>]
             ELSE [returned |-> FALSE, value |-> NotSet,
                   calls |-> <<"yaml", "json">>,
                   err |-> <<Msg("data_format")>>]

\* load_data, lines 57-65: JSON first, YAML only after a JSONDecodeError,
\* a data-format error and exit(1) when both fail
load_data(content) ==
    LET j == json_loads(content)
        y == yaml_safe_load(content)
    IN  IF j.ok
        THEN [returned |-> TRUE, value |-> j.value, calls |-> <<"json">>,
              err |-> <<>>]
        ELSE IF y.ok
             THEN [returned |-> TRUE, value |-> y.value,
                   calls |-> <<"json", "yaml">>, err |-> <<>>]
             ELSE [returned |-> FALSE, value |-> NotSet,
                   calls |-> <<"json", "yaml">>,
                   err |-> <<Msg("data_format")>>]

(* ---------------------------------------------------------------------- *)
(* OptionalUndefined: the lenient Undefined Marker                         *)
(* ---------------------------------------------------------------------- *)

OptionalUndefined_str(self) == <<>>

OptionalUndefined_bool(self) == FALSE

OptionalUndefined_len(self) == 0

OptionalUndefined_iter(self) == <<>>

\* __getitem__ left as the base class defines it
OptionalUndefined_getitem_inherited(self, key) == Raise("UndefinedError")

OptionalUndefined_getitem(self, key) == self

OptionalUndefined_getattr(self, name) == self

(* ---------------------------------------------------------------------- *)
(* The operations a template applies to a value.  Each returns a tagged    *)
(* value or Raise(exc).  StrictUndefined raises UndefinedError on every    *)
(* one of them.                                                            *)
(* ---------------------------------------------------------------------- *)

VBool(b) == [t |-> "bool", v |-> b]
VInt(n) == [t |-> "int", v |-> n]

RECURSIVE PyRepr(_)
RECURSIVE PyReprList(_)
RECURSIVE PyReprItems(_)
\* repr() of a decoded value, as str() shows it inside a container
PyRepr(x) ==
    CASE x.t = "str" -> <<"'">> \o x.v \o <<"'">>
      [] x.t = "num" -> x.v
      [] x.t = "None" -> <<"N", "o", "n", "e">>
      [] x.t = "list" -> <<"[">> \o PyReprList(x.v) \o <<"]">>
      [] x.t = "map" -> <<"{">> \o PyReprItems(x.v) \o <<"}">>

PyReprList(xs) ==
    IF xs = <<>> THEN <<>>
    ELSE PyRepr(Head(xs))
         \o (IF Len(xs) > 1 THEN <<",", " ">> ELSE <<>>)
         \o PyReprList(Tail(xs))

PyReprItems(items) ==
    IF items = <<>> THEN <<>>
    ELSE PyRepr(Head(items).k) \o <<":", " ">> \o PyRepr(Head(items).v)
         \o (IF Len(items) > 1 THEN <<",", " ">> ELSE <<>>)
         \o PyReprItems(Tail(items))

\* str(x), what {{ x }} emits
py_str(x) ==
    CASE x.t = "undefined" ->
            IF x.cls = OptionalUndefinedCls
            THEN VStr(OptionalUndefined_str(x))
            ELSE Raise("UndefinedError")
      [] x.t = "str" -> VStr(x.v)
      [] OTHER -> VStr(PyRepr(x))

\* bool(x), what {% if x %} tests
py_bool(x) ==
    CASE x.t = "undefined" ->
            IF x.cls = OptionalUndefinedCls
            THEN VBool(OptionalUndefined_bool(x))
            ELSE Raise("UndefinedError")
      [] x.t = "None" -> VBool(FALSE)
      [] x.t = "num" -> VBool(x.v \notin {<<"0">>, <<"0", ".", "0">>})
      [] OTHER -> VBool(x.v # <<>>)

\* len(x), what {{ x | length }} computes
py_len(x) ==
    CASE x.t = "undefined" ->
            IF x.cls = OptionalUndefinedCls
            THEN VInt(OptionalUndefined_len(x))
            ELSE Raise("UndefinedError")
      [] x.t \in {"str", "list", "map"} -> VInt(Len(x.v))
      [] OTHER -> Raise("TypeError")

\* iter(x), what {% for i in x %} walks: the number of elements is what
\* decides the output of a loop whose body does not use the loop variable
py_iter(x) ==
    CASE x.t = "undefined" ->
            IF x.cls = OptionalUndefinedCls
            THEN VInt(Len(OptionalUndefined_iter(x)))
            ELSE Raise("UndefinedError")
      [] x.t \in {"str", "list", "map"} -> VInt(Len(x.v))
      [] OTHER -> Raise("TypeError")

HasKey(items, name) ==
    \E i \in 1..Len(items) : items[i].k.t = "str" /\ items[i].k.v = name

GetKey(items, name) ==
    LET i == CHOOSE i \in 1..Len(items) :
                 items[i].k.t = "str" /\ items[i].k.v = name
    IN  items[i].v

\* obj.name (kind "attr") or obj[name] (kind "item") as the environment
\* evaluates it: a mapping yields the entry, any other present value has
\* no such member and yields a new undefined, an undefined answers itself
\* (the names used are not names of methods of the Python values)
Subscript(obj, kind, name, cls) ==
    CASE obj.t = "undefined" ->
            IF obj.cls = OptionalUndefinedCls
            THEN IF kind = "item"
                 THEN OptionalUndefined_getitem(obj, name)
                 ELSE OptionalUndefined_getattr(obj, name)
            ELSE Raise("UndefinedError")
      [] obj.t = "map" ->
            IF HasKey(obj.v, name) THEN GetKey(obj.v, name)
            ELSE Undefined(cls, name)
      [] OTHER -> Undefined(cls, name)

Access(kind, name) == [kind |-> kind, name |-> name]

RECURSIVE Walk(_, _, _)
Walk(obj, path, cls) ==
    IF path = <<>> \/ IsRaise(obj) THEN obj
    ELSE Walk(Subscript(obj, Head(path).kind, Head(path).name, cls),
              Tail(path), cls)

\* the value of name.path in the render context built from the data
Resolve(items, name, path, cls) ==
    Walk(IF HasKey(items, name) THEN GetKey(items, name)
         ELSE Undefined(cls, name), path, cls)

(* ---------------------------------------------------------------------- *)
(* The tojson filter                                                       *)
(* ---------------------------------------------------------------------- *)

\* default indent of to_json
JsonIndent == 2

Indent(level) == Repeat(<<" ">>, JsonIndent * level)

RECURSIVE json_dumps(_, _)
RECURSIVE DumpsList(_, _)
RECURSIVE DumpsItems(_, _)
\* json.dumps(value, indent=2, ensure_ascii=False) of a decoded value; the
\* representative strings hold no character that JSON escapes
json_dumps(x, level) ==
    CASE x.t = "str" -> <<"\"">> \o x.v \o <<"\"">>
      [] x.t = "num" -> x.v
      [] x.t = "None" -> <<"n", "u", "l", "l">>
      [] x.t = "list" ->
            IF x.v = <<>> THEN <<"[", "]">>
            ELSE <<"[", "\n">> \o DumpsList(x.v, level + 1)
                 \o <<"\n">> \o Indent(level) \o <<"]">>
      [] x.t = "map" ->
            IF x.v = <<>> THEN <<"{", "}">>
            ELSE <<"{", "\n">> \o DumpsItems(x.v, level + 1)
                 \o <<"\n">> \o Indent(level) \o <<"}">>

DumpsList(xs, level) ==
    IF xs = <<>> THEN <<>>
    ELSE Indent(level) \o json_dumps(Head(xs), level)
         \o (IF Len(xs) > 1 THEN <<",", "\n">> ELSE <<>>)
         \o DumpsList(Tail(xs), level)

DumpsItems(items, level) ==
    IF items = <<>> THEN <<>>
    ELSE Indent(level) \o <<"\"">> \o Head(items).k.v \o <<"\"", ":", " ">>
         \o json_dumps(Head(items).v, level)
         \o (IF Len(items) > 1 THEN <<",", "\n">> ELSE <<>>)
         \o DumpsItems(Tail(items), level)

\* to_json, lines 90-96: null for the lenient marker, json.dumps otherwise
\* (which raises TypeError on a StrictUndefined)
to_json(value) ==
    IF IsOptionalUndefined(value) THEN VStr(<<"n", "u", "l", "l">>)
    ELSE IF IsUndefined(value) THEN Raise("TypeError")
    ELSE VStr(json_dumps(value, 0))

(* ---------------------------------------------------------------------- *)
(* Templates                                                               *)
(* ---------------------------------------------------------------------- *)

Text(s) == [n |-> "text", s |-> s]
PrintExpr(name, path, filter) ==
    [n |-> "print", name |-> name, path |-> path, filter |-> filter]
IfBlock(name, path, body) ==
    [n |-> "if", name |-> name, path |-> path, body |-> body]
ForBlock(name, path, body) ==
    [n |-> "for", name |-> name, path |-> path, body |-> body]

TemplateFiles ==
    { "hello.md", "email.md", "chain.md", "len.md", "for.md", "if.md",
      "json.md", "plain.md", "bad.md" }

\* the node list the engine parses a template file into; "bad.md" holds a
\* block tag the parser rejects (TemplateSyntaxError)
Parse(file) ==
    CASE file = "hello.md" ->   \* Hello {{ name }}
            Decoded(<<Text(<<"H", "e", "l", "l", "o", " ">>),
                      PrintExpr(kName, <<>>, "none")>>)
      [] file = "email.md" ->   \* Email: {{ user.email }}
            Decoded(<<Text(<<"E", "m", "a", "i", "l", ":", " ">>),
                      PrintExpr(kUser, <<Access("attr", kEmail)>>, "none")>>)
      [] file = "chain.md" ->   \* {{ a['b'].c }}
            Decoded(<<PrintExpr(kA, <<Access("item", kB), Access("attr", kC)>>,
                            "none")>>)
      [] file = "len.md" ->     \* {{ n | length }}
            Decoded(<<PrintExpr(kN, <<>>, "length")>>)
      [] file = "for.md" ->     \* {% for x in miss %}x{% endfor %}
            Decoded(<<ForBlock(kMissing, <<>>, <<"x">>)>>)
      [] file = "if.md" ->      \* {% if name %}yes{% endif %}
            Decoded(<<IfBlock(kName, <<>>, <<"y", "e", "s">>)>>)
      [] file = "json.md" ->    \* {{ user | tojson }}
            Decoded(<<PrintExpr(kUser, <<>>, "tojson")>>)
      [] file = "plain.md" ->   \* static
            Decoded(<<Text(<<"s", "t", "a", "t", "i", "c">>)>>)
      [] OTHER -> DecodeError

\* the strict flag ignored
UndefinedClass_ignores_strict(strict) == OptionalUndefinedCls

\* the undefined class the Environment is built with, line 86
UndefinedClass(strict) ==
    IF strict THEN StrictUndefinedCls ELSE OptionalUndefinedCls

Template(nodes, cls) == [t |-> "template", nodes |-> nodes, undefined |-> cls]

\* what one node contributes to the output, or the exception it raises
RenderNode(node, items, cls) ==
    IF node.n = "text" THEN VStr(node.s)
    ELSE LET x == Resolve(items, node.name, node.path, cls)
         IN  IF IsRaise(x) THEN x
             ELSE CASE node.n = "print" /\ node.filter = "none" -> py_str(x)
                    [] node.n = "print" /\ node.filter = "length" ->
                          LET l == py_len(x)
                          IN  IF IsRaise(l) THEN l ELSE VStr(IntToText(l.v))
                    [] node.n = "print" /\ node.filter = "tojson" -> to_json(x)
                    [] node.n = "if" ->
                          LET b == py_bool(x)
                          IN  IF IsRaise(b) THEN b
                              ELSE VStr(IF b.v THEN node.body ELSE <<>>)
                    [] node.n = "for" ->
                          LET it == py_iter(x)
                          IN  IF IsRaise(it) THEN it
                              ELSE VStr(Repeat(node.body, it.v))

RECURSIVE RenderNodes(_, _, _)
RenderNodes(nodes, items, cls) ==
    IF nodes = <<>> THEN VStr(<<>>)
    ELSE LET h == RenderNode(Head(nodes), items, cls)
             r == RenderNodes(Tail(nodes), items, cls)
         IN  IF IsRaise(h) THEN h
             ELSE IF IsRaise(r) THEN r
             ELSE VStr(h.v \o r.v)

\* data can be unpacked as keyword arguments: a mapping whose keys are all str
IsKwargs(data) ==
    /\ data.t = "map"
    /\ \A i \in 1..Len(data.v) : data.v[i].k.t = "str"

Rendered(text) == [ok |-> TRUE, text |-> text, err |-> <<>>]
RenderFailed == [ok |-> FALSE, text |-> <<>>, err |-> <<Msg("render")>>]

\* render_template that renders data it cannot unpack with an empty context
render_template_coerce(template, data) ==
    LET items == IF IsKwargs(data) THEN data.v ELSE <<>>
        r == RenderNodes(template.nodes, items, template.undefined)
    IN  IF IsRaise(r) THEN RenderFailed ELSE Rendered(r.v)

\* render_template, lines 107-113: template.render(**data); any exception
\* becomes one message and exit(1)
render_template(template, data) ==
    IF ~IsKwargs(data) THEN RenderFailed
    ELSE LET r == RenderNodes(template.nodes, data.v, template.undefined)
         IN  IF IsRaise(r) THEN RenderFailed ELSE Rendered(r.v)

(* ---------------------------------------------------------------------- *)
(* load_template                                                           *)
(* ---------------------------------------------------------------------- *)

\* an optional command-line argument that was not given (argparse's None)
NoArg == "None"

\* template_path.exists(): the template files on disk
Exists(path) == path \in TemplateFiles

\* load_template that asks the engine for the template before it checks
\* that the file exists
load_template_parse_first(template_path, strict) ==
    LET p == Parse(template_path)
    IN  IF ~Exists(template_path)
        THEN [returned |-> FALSE, value |-> NotSet, calls |-> <<"parse">>,
              err |-> <<Msg("template_not_found")>>]
        ELSE IF p.ok
             THEN [returned |-> TRUE,
                   value |-> Template(p.value, UndefinedClass(strict)),
                   calls |-> <<"parse">>, err |-> <<>>]
             ELSE [returned |-> FALSE, value |-> NotSet,
                   calls |-> <<"parse">>, err |-> <<Msg("template_load")>>]

\* load_template, lines 75-104: the existence check, then the Environment
\* with the undefined class chosen by strict, then env.get_template
load_template(template_path, strict) ==
    IF ~Exists(template_path)
    THEN [returned |-> FALSE, value |-> NotSet, calls |-> <<>>,
          err |-> <<Msg("template_not_found")>>]
    ELSE LET p == Parse(template_path)
         IN  IF p.ok
             THEN [returned |-> TRUE,
                   value |-> Template(p.value, UndefinedClass(strict)),
                   calls |-> <<"parse">>, err |-> <<>>]
             ELSE [returned |-> FALSE, value |-> NotSet,
                   calls |-> <<"parse">>, err |-> <<Msg("template_load")>>]

(* ---------------------------------------------------------------------- *)
(* main: one invocation of the command                                     *)
(* ---------------------------------------------------------------------- *)

VARIABLES
    pc,             \* the statement of main the process is at, or "exit"
    argv,           \* the command line
    source,         \* the document held by standard input and by data.json
    args,           \* the parsed arguments
    data,           \* main's local
    template,       \* main's local
    result,         \* main's local
    stdout,         \* the writes made to standard output
    stderr,         \* the messages written to the diagnostic stream
    outFile,        \* the file named by --output
    outFileBefore,  \* that file as the invocation found it
    exitStatus,     \* the exit status, Running until the process ends
    calls,          \* the decoders and the template parser, as invoked
    stages,         \* the stages of main, as entered
    cur,            \* the value an expression under evaluation has reached
    chain,          \* the accesses applied to reach it
    outcome         \* what the last operation applied to cur returned

vars == <<pc, argv, source, args, data, template, result, stdout, stderr,
          outFile, outFileBefore, exitStatus, calls, stages, cur, chain,
          outcome>>

\* the evaluation of one expression, which main's statements do not expose
evalVars == <<cur, chain, outcome>>

Running == -1

DataFiles == { "data.json" }
OutputArg == "out.md"

File(text) == [exists |-> TRUE, text |-> text]
NoFile == [exists |-> FALSE, text |-> <<>>]

Argv ==
    [ template : TemplateFiles \cup {"nofile.md", NoArg},
      data : DataFiles \cup {"nodata.json", "-", NoArg},
      output : {OutputArg, NoArg},
      validate_only : BOOLEAN,
      strict : BOOLEAN ]

Init ==
    /\ pc = "parse_args"
    /\ argv \in Argv
    /\ source \in Docs
    /\ args = NotSet
    /\ data = NotSet
    /\ template = NotSet
    /\ result = NotSet
    /\ stdout = <<>>
    /\ stderr = <<>>
    /\ outFileBefore \in {NoFile, File(<<"o", "l", "d">>)}
    /\ outFile = outFileBefore
    /\ exitStatus = Running
    /\ calls = <<>>
    /\ stages = <<>>
    /\ cur = NotSet
    /\ chain = <<>>
    /\ outcome = NotSet

\* the process ends with `status` after writing `msgs` to the diagnostic stream
Exit(status, msgs) ==
    /\ pc' = "exit"
    /\ exitStatus' = status
    /\ stderr' = stderr \o msgs

\* parse_args with --template not required
ParseArgs_not_required ==
    /\ UNCHANGED evalVars
    /\ pc = "parse_args"
    /\ stages' = Append(stages, "parse_args")
    /\ args' = argv
    /\ pc' = "load_data"
    /\ UNCHANGED <<exitStatus, stderr>>
    /\ UNCHANGED <<argv, source, data, template, result, stdout, outFile,
                   outFileBefore, calls>>

\* parser.parse_args(), line 162: --template is required; argparse reports a
\* usage error on the diagnostic stream and exits with status 2.  The command
\* lines are those built from the five options main declares; argparse's own
\* -h, which prints the usage text and exits before main does anything, is
\* not among them.
ParseArgs ==
    /\ UNCHANGED evalVars
    /\ pc = "parse_args"
    /\ stages' = Append(stages, "parse_args")
    /\ IF argv.template = NoArg
       THEN /\ Exit(2, <<Msg("usage")>>)
            /\ UNCHANGED args
       ELSE /\ args' = argv
            /\ pc' = "load_data"
            /\ UNCHANGED <<exitStatus, stderr>>
    /\ UNCHANGED <<argv, source, data, template, result, stdout, outFile,
                   outFileBefore, calls>>

\* data = load_data(args.data), lines 47-65 and 165: open() of a file that
\* does not exist raises FileNotFoundError, which nothing catches
LoadData ==
    /\ UNCHANGED evalVars
    /\ pc = "load_data"
    /\ stages' = Append(stages, "load_data")
    /\ IF args.data \notin {"-", NoArg} /\ args.data \notin DataFiles
       THEN /\ Exit(1, <<Msg("data_not_found")>>)
            /\ UNCHANGED <<data, calls>>
       ELSE LET r == load_data(source)
            IN  /\ calls' = calls \o r.calls
                /\ IF r.returned
                   THEN /\ data' = r.value
                        /\ pc' = "load_template"
                        /\ UNCHANGED <<exitStatus, stderr>>
                   ELSE /\ Exit(1, r.err)
                        /\ UNCHANGED data
    /\ UNCHANGED <<argv, source, args, template, result, stdout, outFile,
                   outFileBefore>>

\* template = load_template(args.template, strict=args.strict), line 168,
\* and the branch on args.validate_only, line 170
LoadTemplate ==
    /\ UNCHANGED evalVars
    /\ pc = "load_template"
    /\ stages' = Append(stages, "load_template")
    /\ LET r == load_template(args.template, args.strict)
       IN  /\ calls' = calls \o r.calls
           /\ IF r.returned
              THEN /\ template' = r.value
                   /\ pc' = IF args.validate_only THEN "validate" ELSE "render"
                   /\ UNCHANGED <<exitStatus, stderr>>
              ELSE /\ Exit(1, r.err)
                   /\ UNCHANGED template
    /\ UNCHANGED <<argv, source, args, data, result, stdout, outFile,
                   outFileBefore>>

\* the validate-only branch returning normally after a failed render
ValidateOnly_swallows ==
    /\ UNCHANGED evalVars
    /\ pc = "validate"
    /\ stages' = Append(stages, "validate")
    /\ LET r == render_template(template, data)
       IN  IF r.ok
           THEN Exit(0, <<Msg("valid")>>)
           ELSE Exit(0, r.err)
    /\ UNCHANGED <<argv, source, args, data, template, result, stdout,
                   outFile, outFileBefore, calls>>

\* the validate-only branch reporting on standard output
ValidateOnly_reports_on_stdout ==
    /\ UNCHANGED evalVars
    /\ pc = "validate"
    /\ stages' = Append(stages, "validate")
    /\ LET r == render_template(template, data)
       IN  IF r.ok
           THEN /\ pc' = "exit"
                /\ exitStatus' = 0
                /\ stdout' = Append(stdout, Written("valid", <<>>))
                /\ UNCHANGED stderr
           ELSE /\ Exit(1, r.err)
                /\ UNCHANGED stdout
    /\ UNCHANGED <<argv, source, args, data, template, result,
                   outFile, outFileBefore, calls>>

\* the validate-only branch, lines 170-180: render, discard the text, report
ValidateOnly ==
    /\ UNCHANGED evalVars
    /\ pc = "validate"
    /\ stages' = Append(stages, "validate")
    /\ LET r == render_template(template, data)
       IN  IF r.ok
           THEN Exit(0, <<Msg("valid")>>)
           ELSE Exit(1, r.err)
    /\ UNCHANGED <<argv, source, args, data, template, result, stdout,
                   outFile, outFileBefore, calls>>

\* result = render_template(template, data), line 183
Render ==
    /\ UNCHANGED evalVars
    /\ pc = "render"
    /\ stages' = Append(stages, "render")
    /\ LET r == render_template(template, data)
       IN  IF r.ok
           THEN /\ result' = VStr(r.text)
                /\ pc' = "write_output"
                /\ UNCHANGED <<exitStatus, stderr>>
           ELSE /\ Exit(1, r.err)
                /\ UNCHANGED result
    /\ UNCHANGED <<argv, source, args, data, template, stdout, outFile,
                   outFileBefore, calls>>

\* the file written the way print writes
f_write_with_newline(text) == text \o <<"\n">>

\* f.write(result), line 188
f_write(text) == text

\* print(result), line 191: the text and the end-of-line print appends
print_result(text) == text \o <<"\n">>

\* the output step, lines 186-191.  open(..., "w") truncates the file
\* before anything is written; an OSError from open or from the write is
\* caught by nothing and ends the process with a traceback.
WriteOutput ==
    /\ UNCHANGED evalVars
    /\ pc = "write_output"
    /\ stages' = Append(stages, "write_output")
    /\ IF args.output # NoArg
       THEN \/ /\ Exit(1, <<Msg("write_error")>>)       \* open() fails
               /\ UNCHANGED <<outFile, stdout>>
            \/ \E p \in Prefixes(f_write(result.v)) \ {f_write(result.v)} :
               /\ outFile' = File(p)                    \* the write fails
               /\ Exit(1, <<Msg("write_error")>>)
               /\ UNCHANGED stdout
            \/ /\ outFile' = File(f_write(result.v))
               /\ Exit(0, <<Msg("saved")>>)
               /\ UNCHANGED stdout
       ELSE /\ stdout' = Append(stdout,
                                Written("rendered", print_result(result.v)))
            /\ Exit(0, <<>>)
            /\ UNCHANGED outFile
    /\ UNCHANGED <<argv, source, args, data, template, result, outFileBefore,
                   calls>>

Next ==
    \/ ParseArgs
    \/ LoadData
    \/ LoadTemplate
    \/ ValidateOnly
    \/ Render
    \/ WriteOutput

Spec == Init /\ [][Next]_vars

\* the scheduler runs the single thread to completion
FairSpec == Spec /\ WF_vars(Next)

(* ---------------------------------------------------------------------- *)
(* The evaluation of one expression on a missing name, step by step: the   *)
(* state of a lenient invocation at the point where the render begins to   *)
(* evaluate {{ a... }} with `a` absent from the data.                      *)
(* ---------------------------------------------------------------------- *)

ChainKeys == {kB, kC}

MarkerInit ==
    \E d \in Docs :
        LET a == [template |-> "chain.md", data |-> "data.json",
                  output |-> NoArg, validate_only |-> FALSE,
                  strict |-> FALSE]
            ld == load_data(d)
            lt == load_template(a.template, a.strict)
        IN  /\ ld.returned
            /\ IsKwargs(ld.value)
            /\ ~HasKey(ld.value.v, kA)
            /\ pc = "render"
            /\ argv = a
            /\ source = d
            /\ args = a
            /\ data = ld.value
            /\ template = lt.value
            /\ result = NotSet
            /\ stdout = <<>>
            /\ stderr = <<>>
            /\ outFileBefore = NoFile
            /\ outFile = NoFile
            /\ exitStatus = Running
            /\ calls = ld.calls \o lt.calls
            /\ stages = <<"parse_args", "load_data", "load_template">>
            /\ cur = Resolve(ld.value.v, kA, <<>>, lt.value.undefined)
            /\ chain = <<>>
            /\ outcome = NotSet

mainVars == <<pc, argv, source, args, data, template, result, stdout, stderr,
              outFile, outFileBefore, exitStatus, calls, stages>>

Outcome(op, r) == [op |-> op, r |-> r]

\* cur[key]
GetItem ==
    /\ ~IsRaise(cur)
    /\ Len(chain) < MaxChain
    /\ \E k \in ChainKeys :
        /\ cur' = Subscript(cur, "item", k, template.undefined)
        /\ chain' = Append(chain, Access("item", k))
    /\ outcome' = NotSet
    /\ UNCHANGED mainVars

\* cur.name
GetAttr ==
    /\ ~IsRaise(cur)
    /\ Len(chain) < MaxChain
    /\ \E k \in ChainKeys :
        /\ cur' = Subscript(cur, "attr", k, template.undefined)
        /\ chain' = Append(chain, Access("attr", k))
    /\ outcome' = NotSet
    /\ UNCHANGED mainVars

\* str(cur)
Stringify ==
    /\ ~IsRaise(cur)
    /\ outcome' = Outcome("str", py_str(cur))
    /\ UNCHANGED <<mainVars, cur, chain>>

\* bool(cur)
Truth ==
    /\ ~IsRaise(cur)
    /\ outcome' = Outcome("bool", py_bool(cur))
    /\ UNCHANGED <<mainVars, cur, chain>>

\* len(cur)
Length ==
    /\ ~IsRaise(cur)
    /\ outcome' = Outcome("len", py_len(cur))
    /\ UNCHANGED <<mainVars, cur, chain>>

\* iter(cur)
Iterate ==
    /\ ~IsRaise(cur)
    /\ outcome' = Outcome("iter", py_iter(cur))
    /\ UNCHANGED <<mainVars, cur, chain>>

\* the render of the template that prints the chain explored so far
RenderChain ==
    /\ outcome' = Outcome("render",
                          render_template(
                              Template(<<PrintExpr(kA, chain, "none")>>,
                                       template.undefined), data))
    /\ UNCHANGED <<mainVars, cur, chain>>

MarkerNext ==
    \/ GetItem
    \/ GetAttr
    \/ Stringify
    \/ Truth
    \/ Length
    \/ Iterate
    \/ RenderChain

SpecMarker == MarkerInit /\ [][MarkerNext]_vars

(* ---------------------------------------------------------------------- *)
(* Properties                                                              *)
(* ---------------------------------------------------------------------- *)

InSeq(x, s) == \E i \in 1..Len(s) : s[i] = x

\* the data source was read: load_data got past its open/read
DataRead == Len(stages) >= 2 /\ ~InSeq(Msg("data_not_found"), stderr)

\* C1: load_data decodes by a fixed cascade.  JSON is always tried first;
\* valid JSON is returned as JSON decodes it and YAML is not invoked; YAML is
\* invoked exactly when JSON failed, and valid YAML is then returned as YAML
\* decodes it; content invalid under both yields no value, one data-format
\* error and exit status 1, before the template is loaded or anything rendered.
C1_DecodeCascade ==
    DataRead =>
        LET j == json_loads(source)
            y == yaml_safe_load(source)
        IN  /\ calls # <<>> /\ calls[1] = "json"
            /\ j.ok => data = j.value /\ ~InSeq("yaml", calls)
            /\ InSeq("yaml", calls) <=> ~j.ok
            /\ (~j.ok /\ y.ok) => data = y.value
            /\ (~j.ok /\ ~y.ok) =>
                  /\ data = NotSet
                  /\ stderr = <<Msg("data_format")>>
                  /\ pc = "exit" /\ exitStatus = 1
                  /\ template = NotSet /\ result = NotSet
                  /\ ~InSeq("parse", calls)
                  /\ stages = <<"parse_args", "load_data">>
                  /\ stdout = <<>> /\ outFile = outFileBefore

\* C1 witness: JSON decoding failed and the YAML decoding was returned
C1_Witness ==
    /\ DataRead
    /\ calls = <<"json", "yaml">>
    /\ ~json_loads(source).ok
    /\ data = yaml_safe_load(source).value
    /\ pc = "load_template"

RenderWouldSucceed ==
    /\ data # NotSet
    /\ template # NotSet
    /\ render_template(template, data).ok

Fatal == pc = "exit" /\ exitStatus # 0

\* C3: no partial success.  The output sink holds either the complete
\* rendered text of a successful render or nothing; whenever the invocation
\* ends in a fatal error (an output-write failure included) no rendered text
\* has reached the sink and the output file is as the invocation found it.
C3_NoPartialOutput ==
    /\ \/ outFile = outFileBefore
       \/ result # NotSet /\ outFile = File(result.v)
    /\ \/ stdout = <<>>
       \/ result # NotSet
          /\ stdout = <<Written("rendered", print_result(result.v))>>
    /\ Fatal => stdout = <<>> /\ outFile = outFileBefore

IsPrefix(s, t) == Len(s) <= Len(t) /\ s = SubSeq(t, 1, Len(s))

ValidateStages == <<"parse_args", "load_data", "load_template", "validate">>
RenderStages ==
    <<"parse_args", "load_data", "load_template", "render", "write_output">>

\* the stages were entered in the order of main, each at most once
StagesInOrder ==
    IsPrefix(stages, ValidateStages) \/ IsPrefix(stages, RenderStages)

\* C4 as stated: the stages run in order, each at most once, and the only
\* exit statuses are 0 and 1, argument parsing included.
C4_OnlyStatus0Or1 ==
    /\ StagesInOrder
    /\ pc = "exit" => exitStatus \in {0, 1}

Succeeded ==
    \/ stages = ValidateStages /\ stderr = <<Msg("valid")>>
    \/ stages = RenderStages /\ result # NotSet
       /\ \/ stdout # <<>>
          \/ stderr = <<Msg("saved")>>

C4_StagesAndStatus ==
    /\ StagesInOrder
    /\ pc # "exit" <=> exitStatus = Running
    /\ pc = "exit" =>
          /\ exitStatus \in {0, 1, 2}
          /\ exitStatus = 0 <=> Succeeded
          /\ exitStatus = 2 <=> (argv.template = NoArg)
          /\ exitStatus = 2 => stages = <<"parse_args">> /\ args = NotSet
          /\ exitStatus # 0 => Len(stderr) = 1

\* C4 amended: the stages run in order, each at most once, and every
\* invocation terminates in one terminal state whose exit status is 0 on
\* success, 1 for a fatal error of load-data, load-template, render or
\* write-output, and 2 for a usage error found by argument parsing.
C4_Amended == [](C4_StagesAndStatus) /\ <>(pc = "exit")

\* C4 witness: argument parsing ended the invocation with status 2
C4_Witness ==
    /\ pc = "exit"
    /\ exitStatus = 2
    /\ stages = <<"parse_args">>
    /\ stderr = <<Msg("usage")>>

\* C5 as stated: an input-not-found error for the data file or for the
\* template file is reported before any JSON decode, YAML decode or template
\* parse has been attempted.
C5_NotFoundBeforeAnyParse ==
    (InSeq(Msg("data_not_found"), stderr)
        \/ InSeq(Msg("template_not_found"), stderr)) =>
            /\ calls = <<>>
            /\ Fatal

\* C5 amended: a missing data file is reported before any decode or parse
\* attempt; a missing template file is reported before any template parse
\* attempt, but after the data has been read and decoded; each is the only
\* message of the invocation, distinct from a data-format or template error,
\* and ends it with status 1.
C5_Amended ==
    /\ InSeq(Msg("data_not_found"), stderr) =>
          /\ calls = <<>>
          /\ stderr = <<Msg("data_not_found")>>
          /\ pc = "exit" /\ exitStatus = 1
    /\ InSeq(Msg("template_not_found"), stderr) =>
          /\ ~InSeq("parse", calls)
          /\ calls # <<>> /\ calls[1] = "json"
          /\ data # NotSet
          /\ stderr = <<Msg("template_not_found")>>
          /\ pc = "exit" /\ exitStatus = 1
    /\ (pc = "exit" /\ args # NotSet) =>
          /\ (args.data \notin DataFiles \cup {"-", NoArg})
                => stderr = <<Msg("data_not_found")>>
          /\ (~Exists(args.template) /\ data # NotSet)
                => stderr = <<Msg("template_not_found")>>

\* C5 witness: a missing template file reported after the data was decoded
C5_Witness ==
    /\ stderr = <<Msg("template_not_found")>>
    /\ calls = <<"json">>
    /\ data # NotSet
    /\ pc = "exit"

\* C6: in lenient mode the Undefined Marker is closed under its operations.
\* After any chain of index and attribute accesses that starts at a missing
\* name the value is still a Marker; str gives the empty string, bool gives
\* false, len gives 0, iteration gives no element; no step raises, and the
\* render of the chain completes.
C6_MarkerClosed ==
    (cur # NotSet) =>
        /\ IsOptionalUndefined(cur)
        /\ (outcome # NotSet) =>
              /\ outcome.op = "str" => outcome.r = VStr(<<>>)
              /\ outcome.op = "bool" => outcome.r = VBool(FALSE)
              /\ outcome.op = "len" => outcome.r = VInt(0)
              /\ outcome.op = "iter" => outcome.r = VInt(0)
              /\ outcome.op = "render" => outcome.r = Rendered(<<>>)

\* C6 witness: a chain of three or more accesses on a missing name, rendered
C6_Witness ==
    /\ cur # NotSet
    /\ Len(chain) >= 3
    /\ \E i \in 1..Len(chain) : chain[i].kind = "item"
    /\ \E i \in 1..Len(chain) : chain[i].kind = "attr"
    /\ outcome # NotSet
    /\ outcome.op = "render"
    /\ outcome.r.ok

RefNodes(nodes) == { i \in 1..Len(nodes) : nodes[i].n # "text" }

\* the template references a top-level key the data does not have
MissingTopLevel(nodes, items) ==
    \E i \in RefNodes(nodes) : ~HasKey(items, nodes[i].name)

\* every reference of the template resolves to a value present in the data
AllPresent(nodes, items) ==
    \A i \in RefNodes(nodes) :
        ~IsUndefined(Resolve(items, nodes[i].name, nodes[i].path,
                             OptionalUndefinedCls))

StrictRender == render_template(Template(template.nodes, StrictUndefinedCls), data)
LenientRender ==
    render_template(Template(template.nodes, OptionalUndefinedCls), data)

C8_StdoutClean ==
    /\ Len(stdout) <= 1
    /\ \A i \in 1..Len(stdout) :
          /\ stdout[i].kind = "rendered"
          /\ result # NotSet
          /\ IsPrefix(result.v, stdout[i].text)
    /\ stdout # <<>> => stderr = <<>>

\* C8 witness: a save confirmation was issued and standard output is empty
C8_Witness ==
    /\ pc = "exit"
    /\ stderr = <<Msg("saved")>>
    /\ stdout = <<>>

RECURSIVE Flatten(_)
Flatten(ws) == IF ws = <<>> THEN <<>> ELSE Head(ws).text \o Flatten(Tail(ws))

SuccessfulOutput ==
    /\ pc = "exit"
    /\ exitStatus = 0
    /\ args # NotSet
    /\ ~args.validate_only

\* C9 as stated: after a successful invocation the sink holds exactly the
\* text the render returned, on the --output file and on standard output.
C9_VerbatimBothSinks ==
    SuccessfulOutput =>
        IF args.output # NoArg
        THEN outFile = File(result.v)
        ELSE Flatten(stdout) = result.v

\* C9 amended: after a successful invocation the --output file holds exactly
\* the text the render returned; standard output holds that text followed by
\* one end-of-line character.
C9_Amended ==
    SuccessfulOutput =>
        IF args.output # NoArg
        THEN outFile = File(result.v) /\ stdout = <<>>
        ELSE Flatten(stdout) = result.v \o <<"\n">> /\ outFile = outFileBefore

\* C9 witness: a successful invocation that wrote to standard output
C9_Witness ==
    /\ SuccessfulOutput
    /\ args.output = NoArg
    /\ result.v # <<>>
    /\ stdout # <<>>

\* C10: data that is not a mapping with string keys is never rendered.  In
\* both modes, with or without --validate-only, the invocation ends with one
\* message on the diagnostic stream and status 1, nothing is written to the
\* output file or to standard output, and once the template has loaded the
\* failure is the render's.
C10_NonMappingFails ==
    (data # NotSet /\ ~IsKwargs(data)) =>
        /\ result = NotSet
        /\ stdout = <<>>
        /\ outFile = outFileBefore
        /\ pc \notin {"write_output"}
        /\ pc = "exit" =>
              /\ exitStatus = 1
              /\ Len(stderr) = 1
              /\ template # NotSet => stderr = <<Msg("render")>>

\* C10 witness: the null of an empty document, refused by the render of a
\* lenient validate-only invocation
C10_Witness ==
    /\ data = None
    /\ ~args.strict
    /\ args.validate_only
    /\ pc = "exit"
    /\ exitStatus = 1
    /\ stderr = <<Msg("render")>>

====
